---- MODULE Spec2Model ----
(***************************************************************************)
(* A model of picdate / pad (src/picdate/picdate.py, src/pad/pad.py): the  *)
(* command line driver cli, the directory scheduler add_date_in_dir_mt     *)
(* with its worker pool, and the single image worker add_date_to_img.      *)
(*                                                                         *)
(* Paths are sequences of one-character strings so that str.replace, the   *)
(* suffix test and the parent computation are computed as Python computes  *)
(* them.  Floats are modelled by exact rationals <<num, den>> (den > 0).   *)
(***************************************************************************)
EXTENDS Integers, Sequences, FiniteSets, TLC

VARIABLES
    args,        \* the parsed command line (argparse namespace), fixed after Init
    fs,          \* the file system's regular files: path -> content
    dirs,        \* the file system's directories
    fs0,         \* history: the files that existed before the run
    pc,          \* position of the main process (cli / add_date_in_dir_mt)
    listing,     \* the files the glob generator saw when it was created
    visited,     \* the files the dispatch loop has already iterated over
    tasks,       \* the calls of add_date_to_img, in submission order
    idx,         \* index of the task the coordinator awaits (for task in tasks)
    pool,        \* multiprocessing.Pool: none, open, closed, terminated, joined
    ret,         \* return value of add_date_in_dir_mt: unset, None, 1
    exitcode,    \* exit status of the process, -1 while it runs
    interrupted, \* history: a SIGINT was delivered to the main process
    examined,    \* history: what the dispatch loop decided for each candidate
    written      \* history: the paths a worker's save opened for writing

vars == <<args, fs, dirs, fs0, pc, listing, visited, tasks, idx, pool, ret,
          exitcode, interrupted, examined, written>>

----------------------------------------------------------------------------
(* Bounds of the model *)

\* at most this many files under the source root before the run
MaxFiles == 2

\* largest raw image width / height drawn for the geometry specification
MaxDim == 12

(* Program constants *)

\* picdate.py:60, the longest side is 152 mm for 4x6
LongEdgeMm == 152

\* pad.py:34, font size is the longest side // 36
PadFontDivisor == 36

\* picdate.py:200, default of --text_size (4.24 mm), in hundredths
TextSizeHundredths == 424

\* picdate.py:45, the tolerance 0.01 of the ratio comparison, in hundredths
TolHundredths == 1

----------------------------------------------------------------------------
(* Exact rationals standing for Python floats *)

R(n, d) == <<n, d>>
RInt(i) == <<i, 1>>
RAdd(a, b) == <<a[1] * b[2] + b[1] * a[2], a[2] * b[2]>>
RSub(a, b) == <<a[1] * b[2] - b[1] * a[2], a[2] * b[2]>>
RMul(a, b) == <<a[1] * b[1], a[2] * b[2]>>
\* a / b for b > 0
RDiv(a, b) == <<a[1] * b[2], a[2] * b[1]>>
RLt(a, b) == a[1] * b[2] < b[1] * a[2]
RGt(a, b) == RLt(b, a)
REq(a, b) == a[1] * b[2] = b[1] * a[2]
RZero == <<0, 1>>

----------------------------------------------------------------------------
(* Strings and paths *)

\* str.replace(old, new): every non-overlapping occurrence, left to right
RECURSIVE Replace(_, _, _)
Replace(s, old, new) ==
    IF Len(s) < Len(old) THEN s
    ELSE IF SubSeq(s, 1, Len(old)) = old
         THEN new \o Replace(SubSeq(s, Len(old) + 1, Len(s)), old, new)
         ELSE <<Head(s)>> \o Replace(Tail(s), old, new)

\* index of the last occurrence of character c in s, 0 when there is none
LastIndex(s, c) ==
    LET I == {i \in 1..Len(s) : s[i] = c}
    IN  IF I = {} THEN 0 ELSE CHOOSE i \in I : \A j \in I : j <= i

\* PurePath.parent
Parent(p) ==
    LET i == LastIndex(p, "/")
    IN  IF i <= 1 THEN <<"/">> ELSE SubSeq(p, 1, i - 1)

\* PurePath.name
Name(p) == SubSeq(p, LastIndex(p, "/") + 1, Len(p))

\* PurePath.suffix: from the last dot of the name, unless it leads or ends it
Suffix(p) ==
    LET n == Name(p)
        i == LastIndex(n, ".")
    IN  IF 1 < i /\ i < Len(n) THEN SubSeq(n, i, Len(n)) ELSE <<>>

\* str.lower on the alphabet of the model
LowerChar(c) == IF c = "J" THEN "j" ELSE IF c = "T" THEN "t" ELSE c
Lower(s) == [i \in 1..Len(s) |-> LowerChar(s[i])]

\* all ancestors of p below the root, p's parent first
RECURSIVE Ancestors(_)
Ancestors(p) ==
    IF Parent(p) = <<"/">> THEN {} ELSE {Parent(p)} \cup Ancestors(Parent(p))

\* p lies somewhere below directory d
IsBelow(p, d) == d \in Ancestors(p)

----------------------------------------------------------------------------
(* The universe of paths and file contents *)

DirA == <<"/", "a">>
DirB == <<"/", "b">>
FileAaj == <<"/", "a", "/", "a", ".", "j">>
FileAbj == <<"/", "a", "/", "b", ".", "j">>
FileAat == <<"/", "a", "/", "a", ".", "t">>
FileAAbJ == <<"/", "a", "/", "a", "/", "b", ".", "J">>
FileBbj == <<"/", "b", "/", "b", ".", "j">>

SrcUniverse == {FileAaj, FileAbj, FileAat, FileAAbJ}

\* what a file holds: a decodable image with its metadata and raw raster size,
\* bytes that are no image, or a FIFO whose open() blocks
Img(exif, orient, w, h) ==
    [kind |-> "img", exif |-> exif, orient |-> orient, w |-> w, h |-> h]
Junk == [kind |-> "junk", exif |-> "none", orient |-> 1, w |-> 0, h |-> 0]
Fifo == [kind |-> "fifo", exif |-> "none", orient |-> 1, w |-> 0, h |-> 0]

ContentChoices(p) ==
    CASE p = FileAaj -> {Img("date", 6, 200, 300), Junk}
      [] p = FileAbj -> {Img("nodate", 6, 200, 300), Fifo}
      [] p = FileAAbJ -> {Img("baddate", 1, 300, 200), Img("none", 1, 300, 200)}
      [] OTHER -> {Junk}

\* --fine_tune_aspect_ratio: "none", a string "M/N", or any other string
RatioNone == [kind |-> "none", m |-> 0, n |-> 1]
Ratio(m, n) == [kind |-> "ratio", m |-> m, n |-> n]
RatioGarbage == [kind |-> "garbage", m |-> 0, n |-> 1]

\* the option combinations explored by the full specification
Options ==
    { [variant |-> "picdate", ratio |-> Ratio(2, 3), jobs |-> 2],
      [variant |-> "picdate", ratio |-> Ratio(3, 2), jobs |-> 2],
      [variant |-> "picdate", ratio |-> RatioGarbage, jobs |-> 1],
      [variant |-> "pad", ratio |-> RatioNone, jobs |-> 2] }

\* --src / --dst pairs: a directory run and a single-file run
Targets ==
    { <<DirA, DirB>>, <<DirA, DirA>>,
      <<FileAaj, FileAaj>>, <<FileAaj, FileBbj>>, <<FileAaj, DirB>> }

MakeArgs(t, o, force, recursive, px, py) ==
    [src |-> t[1], dst |-> t[2], force |-> force, recursive |-> recursive,
     jobs |-> o.jobs, variant |-> o.variant,
     fine_tune_aspect_ratio |-> o.ratio,
     pos_x |-> R(px, 100), pos_y |-> R(py, 100),
     text_size |-> R(TextSizeHundredths, 100),
     img_exts |-> {<<"j">>}]

----------------------------------------------------------------------------
(* File system queries *)

Exists(p) == p \in DOMAIN fs \/ p \in dirs
IsFile(p) == p \in DOMAIN fs /\ fs[p].kind # "fifo"

\* the directories a set of files needs
DirsOf(F) == UNION {Ancestors(f) : f \in F}

\* Path(in_dir).glob("*") / rglob("*"): entries directly in, or anywhere below
Glob(in_dir, recursive) ==
    {p \in DOMAIN fs \cup dirs :
        IF recursive THEN IsBelow(p, in_dir) ELSE Parent(p) = in_dir /\ p # in_dir}

----------------------------------------------------------------------------
(* Tasks: one call of add_date_to_img *)

NoGeo ==
    [width |-> 0, height |-> 0, offset_w |-> RZero, offset_h |-> RZero,
     size |-> 0, draw_x |-> RZero, draw_y |-> RZero]

NewTask(inpath, outpath, inproc) ==
    [inpath |-> inpath, outpath |-> outpath, inproc |-> inproc,
     pc |-> "queued", result |-> "pending", failed |-> FALSE, exc |-> "none",
     exif |-> "none", transposed |-> FALSE, datesrc |-> "none",
     steps |-> <<>>, geo |-> NoGeo, img |-> Junk]

TaskIds == 1..Len(tasks)
Running == {t \in TaskIds : tasks[t].pc \in {"blocked", "mkdir", "save"}}
Unfinished == {t \in TaskIds : tasks[t].result = "pending"}

\* pool.terminate(), or the pool's finalizer at interpreter exit: every task
\* that has not finished is killed
Terminated(ts) ==
    [t \in DOMAIN ts |->
        IF ts[t].result = "pending" /\ ~ts[t].inproc
        THEN [ts[t] EXCEPT !.pc = "killed"] ELSE ts[t]]

----------------------------------------------------------------------------
(* Initial states *)

\* the states before cli runs, for given sets of source files, options and
\* flags
InitWith(Files, Opts, Forces, Recursives) ==
    \E F \in SUBSET Files, pre \in BOOLEAN, t \in Targets, o \in Opts,
       force \in Forces, recursive \in Recursives :
      /\ Cardinality(F) <= MaxFiles
      /\ \E c \in [F -> UNION {ContentChoices(p) : p \in F}] :
           /\ \A p \in F : c[p] \in ContentChoices(p)
           /\ fs = [p \in F \cup (IF pre THEN {FileBbj} ELSE {}) |->
                      IF p \in F THEN c[p] ELSE Img("none", 1, 300, 200)]
      /\ dirs = {DirA} \cup DirsOf(F) \cup (IF pre THEN {DirB} ELSE {})
      /\ fs0 = F \cup (IF pre THEN {FileBbj} ELSE {})
      /\ args = MakeArgs(t, o, force, recursive, 94, 94)
      /\ pc = "cli"
      /\ listing = {}
      /\ visited = {}
      /\ tasks = <<>>
      /\ idx = 0
      /\ pool = "none"
      /\ ret = "unset"
      /\ exitcode = -1
      /\ interrupted = FALSE
      /\ examined = {}
      /\ written = {}

Init == InitWith(SrcUniverse, Options, BOOLEAN, BOOLEAN)

----------------------------------------------------------------------------
(* add_date_to_img: the computation between opening the input and the first *)
(* write to the file system.  It touches only the worker's own memory.      *)

\* an except clause that names one class only
ExceptValueErrorOnly(e) == e = "ValueError"

\* the except clause of add_date_to_img, "except Exception": the classes it
\* catches.  KeyboardInterrupt derives from BaseException and is not one.
ExceptClause(e) ==
    e \in {"UnidentifiedImageError", "ValueError", "ZeroDivisionError", "OSError"}

\* ImageOps.exif_transpose: orientations 5 to 8 swap width and height
Transposed(c) ==
    IF c.orient \in 5..8
    THEN [c EXCEPT !.orient = 1, !.w = c.h, !.h = c.w]
    ELSE [c EXCEPT !.orient = 1]

NoOffsets == [exc |-> "none", offset_w |-> RZero, offset_h |-> RZero]
Raise(e) == [exc |-> e, offset_w |-> RZero, offset_h |-> RZero]

\* picdate.py 40-53, the fine tune for photo crop in different aspect ratio,
\* with the tolerance of the comparisons as a parameter
FineTuneWith(width, height, fine_tune_aspect_ratio, tol) ==
    IF fine_tune_aspect_ratio.kind = "none" THEN NoOffsets
    ELSE IF fine_tune_aspect_ratio.kind = "garbage" THEN Raise("ValueError")
    ELSE IF fine_tune_aspect_ratio.n = 0 THEN Raise("ZeroDivisionError")
    ELSE
      LET aspect_ratio == R(fine_tune_aspect_ratio.m, fine_tune_aspect_ratio.n)
          q == RDiv(RInt(width), RInt(height))
          inv == RDiv(RInt(1), aspect_ratio)
          half(x) == RDiv(x, RInt(2))
      IN  IF width > height
          THEN IF aspect_ratio[1] = 0 THEN Raise("ZeroDivisionError")
               ELSE IF RGt(q, RAdd(inv, tol))
               THEN [NoOffsets EXCEPT !.offset_w =
                       half(RSub(RInt(width), RMul(inv, RInt(height))))]
               ELSE IF RLt(q, RSub(inv, tol))
               THEN [NoOffsets EXCEPT !.offset_h =
                       half(RSub(RInt(height), RMul(aspect_ratio, RInt(width))))]
               ELSE NoOffsets
          ELSE IF RGt(q, RAdd(aspect_ratio, tol))
               THEN [NoOffsets EXCEPT !.offset_w =
                       half(RSub(RInt(width), RMul(aspect_ratio, RInt(height))))]
               ELSE IF RLt(q, RSub(aspect_ratio, tol))
               THEN IF aspect_ratio[1] = 0 THEN Raise("ZeroDivisionError")
                    ELSE [NoOffsets EXCEPT !.offset_h =
                            half(RSub(RInt(height), RMul(inv, RInt(width))))]
               ELSE NoOffsets

\* the fine tune as it would be without the 0.01 band around the target
FineTuneNoBand(width, height, fine_tune_aspect_ratio) ==
    FineTuneWith(width, height, fine_tune_aspect_ratio, RZero)

FineTune(width, height, fine_tune_aspect_ratio) ==
    FineTuneWith(width, height, fine_tune_aspect_ratio, R(TolHundredths, 100))

Max(a, b) == IF a > b THEN a ELSE b

\* the font size in pixels: text_size * longest side // 152 (picdate),
\* longest side // 36 (pad)
FontSize(variant, text_size, width, height) ==
    IF variant = "pad"
    THEN Max(width, height) \div PadFontDivisor
    ELSE (text_size[1] * Max(width, height)) \div (text_size[2] * LongEdgeMm)

\* the first argument of draw.text
DrawX(width, offset_w, pos_x) == RMul(RSub(RInt(width), offset_w), pos_x)
DrawY(height, offset_h, pos_y) == RMul(RSub(RInt(height), offset_h), pos_y)

\* DateResolver: exif is None or 36867 not in exif -> st_mtime, else the field
DateSource(exif) == IF exif \in {"none", "nodate"} THEN "mtime" ELSE "exif"

\* picdate.py: whether the else branch that parses the date and calls
\* ImageOps.exif_transpose is taken
TransposeTaken(exif) == exif \notin {"none", "nodate"}

Outcome(exc, exif, transposed, datesrc, steps, geo) ==
    [exc |-> exc, exif |-> exif, transposed |-> transposed,
     datesrc |-> datesrc, steps |-> steps, geo |-> geo]

\* the last stage of both variants: load the font and draw
Render(cfg, exif, transposed, steps, width, height, ft, envfail) ==
    LET size == FontSize(cfg.variant, cfg.text_size, width, height)
        geo == [width |-> width, height |-> height,
                offset_w |-> ft.offset_w, offset_h |-> ft.offset_h,
                size |-> size,
                draw_x |-> DrawX(width, ft.offset_w, cfg.pos_x),
                draw_y |-> DrawY(height, ft.offset_h, cfg.pos_y)]
        st == Append(steps, "render")
    IN  IF size < 1 \/ envfail = "render"
        THEN Outcome("OSError", exif, transposed, DateSource(exif), st,
                     [geo EXCEPT !.draw_x = RZero, !.draw_y = RZero])
        ELSE Outcome("none", exif, transposed, DateSource(exif), st, geo)

\* picdate.py lines 16-79
PipelinePicdate(c, cfg, envfail) ==
    IF c.kind = "junk"
    THEN Outcome("UnidentifiedImageError", "none", FALSE, "none",
                 <<"decode">>, NoGeo)
    ELSE IF c.exif = "baddate"
    THEN Outcome("ValueError", c.exif, FALSE, "none",
                 <<"decode", "metadata", "date">>, NoGeo)
    ELSE
      LET tr == TransposeTaken(c.exif)
          img == IF tr THEN Transposed(c) ELSE c
          s1 == IF tr THEN <<"decode", "metadata", "date", "orient">>
                ELSE <<"decode", "metadata", "date">>
          s2 == s1 \o <<"measure", "geometry">>
          ft == FineTune(img.w, img.h, cfg.fine_tune_aspect_ratio)
      IN  IF ft.exc # "none"
          THEN Outcome(ft.exc, c.exif, tr, DateSource(c.exif), s2,
                       [NoGeo EXCEPT !.width = img.w, !.height = img.h])
          ELSE Render(cfg, c.exif, tr, s2, img.w, img.h, ft, envfail)

\* pad.py lines 13-49: the size is measured first, nothing is transposed
PipelinePad(c, cfg, envfail) ==
    IF c.kind = "junk"
    THEN Outcome("UnidentifiedImageError", "none", FALSE, "none",
                 <<"decode">>, NoGeo)
    ELSE IF c.exif = "baddate"
    THEN Outcome("ValueError", c.exif, FALSE, "none",
                 <<"decode", "measure", "metadata", "date">>,
                 [NoGeo EXCEPT !.width = c.w, !.height = c.h])
    ELSE Render(cfg, c.exif, FALSE, <<"decode", "measure", "metadata", "date">>,
                c.w, c.h, NoOffsets, envfail)

Pipeline(c, cfg, envfail) ==
    IF cfg.variant = "pad" THEN PipelinePad(c, cfg, envfail)
    ELSE PipelinePicdate(c, cfg, envfail)

\* leaving the try block: an exception the except clause catches is printed
\* and the function returns None; any other leaves the function
Finish(task, exc) ==
    IF exc = "none"
    THEN [task EXCEPT !.pc = "done", !.result = "returned"]
    ELSE IF ExceptClause(exc)
    THEN [task EXCEPT !.pc = "done", !.result = "returned",
                      !.failed = TRUE, !.exc = exc]
    ELSE [task EXCEPT !.pc = "done", !.result = "raised", !.exc = exc]

----------------------------------------------------------------------------
(* The worker: add_date_to_img, in a pool process or (single-file mode) in  *)
(* the main process                                                         *)

\* a pool process may take a step while the pool has not been terminated; the
\* single-file call runs in the main process
CanRun(t) ==
    IF tasks[t].inproc THEN pc = "single" ELSE pool \in {"open", "closed"}

\* a pool of args.jobs processes takes the queued tasks in submission order
CanStart(t) ==
    \/ tasks[t].inproc
    \/ /\ Cardinality(Running) < args.jobs
       /\ \A u \in 1..(t - 1) : tasks[u].pc # "queued"

\* Image.open ... draw.text (picdate.py 16-79, pad.py 13-49)
W_Begin(t) ==
    /\ tasks[t].pc = "queued"
    /\ CanRun(t)
    /\ CanStart(t)
    /\ LET task == tasks[t]
           c == IF task.inpath \in DOMAIN fs THEN fs[task.inpath] ELSE Junk
       IN  IF c.kind = "fifo"
           THEN tasks' = [tasks EXCEPT ![t].pc = "blocked",
                                       ![t].steps = <<"decode">>]
           ELSE \E envfail \in {"none", "render"} :
                  LET o == Pipeline(c, args, envfail)
                      begun == [task EXCEPT !.exif = o.exif,
                                  !.transposed = o.transposed,
                                  !.datesrc = o.datesrc,
                                  !.steps = o.steps,
                                  !.geo = o.geo,
                                  !.img = IF o.transposed THEN Transposed(c) ELSE c]
                  IN  tasks' = [tasks EXCEPT ![t] =
                                  IF o.exc = "none"
                                  THEN [begun EXCEPT !.pc = "mkdir"]
                                  ELSE Finish(begun, o.exc)]
    /\ UNCHANGED <<args, fs, dirs, fs0, pc, listing, visited, idx, pool, ret,
                   exitcode, interrupted, examined, written>>

\* create parent directors (picdate.py 82-83, pad.py 52-53)
W_Mkdir(t) ==
    /\ tasks[t].pc = "mkdir"
    /\ CanRun(t)
    /\ LET task == tasks[t]
           parent == Parent(task.outpath)
           need == {parent} \cup Ancestors(parent)
           logged == [task EXCEPT !.steps = Append(task.steps, "mkdir")]
       IN  IF Exists(parent)
           THEN /\ tasks' = [tasks EXCEPT ![t] = [logged EXCEPT !.pc = "save"]]
                /\ dirs' = dirs
           ELSE \E ok \in BOOLEAN :
                  IF ok /\ need \cap DOMAIN fs = {}
                  THEN /\ dirs' = dirs \cup need
                       /\ tasks' = [tasks EXCEPT ![t] =
                                      [logged EXCEPT !.pc = "save"]]
                  ELSE /\ dirs' = dirs
                       /\ tasks' = [tasks EXCEPT ![t] = Finish(logged, "OSError")]
    /\ UNCHANGED <<args, fs, fs0, pc, listing, visited, idx, pool, ret,
                   exitcode, interrupted, examined, written>>

\* save processed photo (picdate.py 86-94, pad.py 56-64): the file is opened
\* for writing, which creates or truncates it, and then encoded
W_Save(t) ==
    /\ tasks[t].pc = "save"
    /\ CanRun(t)
    /\ LET task == tasks[t]
           out == task.outpath
           logged == [task EXCEPT !.steps = Append(task.steps, "save")]
       IN  IF out \in dirs \/ Parent(out) \notin dirs
           THEN /\ tasks' = [tasks EXCEPT ![t] = Finish(logged, "OSError")]
                /\ UNCHANGED <<fs, written>>
           ELSE /\ written' = written \cup {out}
                /\ \E ok \in BOOLEAN :
                     IF ok
                     THEN /\ fs' = [p \in DOMAIN fs \cup {out} |->
                                      IF p = out THEN task.img ELSE fs[p]]
                          /\ tasks' = [tasks EXCEPT ![t] = Finish(logged, "none")]
                     ELSE /\ fs' = [p \in DOMAIN fs \cup {out} |->
                                      IF p = out THEN Junk ELSE fs[p]]
                          /\ tasks' = [tasks EXCEPT ![t] = Finish(logged, "OSError")]
    /\ UNCHANGED <<args, dirs, fs0, pc, listing, visited, idx, pool, ret,
                   exitcode, interrupted, examined>>

Begin == \E t \in TaskIds : W_Begin(t)
Mkdir == \E t \in TaskIds : W_Mkdir(t)
Save == \E t \in TaskIds : W_Save(t)

----------------------------------------------------------------------------
(* cli (picdate.py 264-304, pad.py 187-221)                                 *)

\* the process ends with this status; at interpreter exit the pool's
\* finalizer terminates the worker processes that are left
Exit(code, ts) ==
    /\ pc' = "exit"
    /\ exitcode' = code
    /\ tasks' = Terminated(ts)
    /\ pool' = IF pool \in {"open", "closed"} THEN "terminated" ELSE pool

\* sys.exit(1): src is a file and dst is not a file, or dst exists without
\* --force
C_ConfigError ==
    /\ pc = "cli"
    /\ Exists(args.src) /\ IsFile(args.src)
    /\ \/ ~IsFile(args.dst)
       \/ ~args.force /\ Exists(args.dst)
    /\ Exit(1, tasks)
    /\ UNCHANGED <<args, fs, dirs, fs0, listing, visited, idx, ret,
                   interrupted, examined, written>>

\* add_date_to_img(args.src, args.dst, config) in the main process
C_SingleFile ==
    /\ pc = "cli"
    /\ Exists(args.src) /\ IsFile(args.src)
    /\ IsFile(args.dst)
    /\ args.force \/ ~Exists(args.dst)
    /\ tasks' = <<NewTask(args.src, args.dst, TRUE)>>
    /\ pc' = "single"
    /\ UNCHANGED <<args, fs, dirs, fs0, listing, visited, idx, pool, ret,
                   exitcode, interrupted, examined, written>>

\* the single-file call has returned (cli ends, status 0) or has let an
\* exception through (traceback, status 1)
C_SingleReturn ==
    /\ pc = "single"
    /\ tasks[1].pc = "done"
    /\ Exit(IF tasks[1].result = "returned" THEN 0 ELSE 1, tasks)
    /\ UNCHANGED <<args, fs, dirs, fs0, listing, visited, idx, ret,
                   interrupted, examined, written>>

\* add_date_in_dir_mt is entered: the glob generator and the pool are created
C_DirMode ==
    /\ pc = "cli"
    /\ ~(Exists(args.src) /\ IsFile(args.src))
    /\ listing' = Glob(args.src, args.recursive)
    /\ pool' = "open"
    /\ pc' = "dispatch"
    /\ UNCHANGED <<args, fs, dirs, fs0, visited, tasks, idx, ret, exitcode,
                   interrupted, examined, written>>

----------------------------------------------------------------------------
(* add_date_in_dir_mt (picdate.py 108-151, pad.py 77-120)                   *)

\* allowed_exts = ["." + str(i).lower() for i in config["img_exts"].split(",")]
AllowedExts(img_exts) == {<<".">> \o Lower(e) : e \in img_exts}

\* out_path = str(in_path).replace(str(Path(in_dir).absolute()),
\*                                 str(Path(out_dir).absolute()))
MirrorPath(in_path, in_dir, out_dir) == Replace(in_path, in_dir, out_dir)

\* the skip as it would be if only an existing directory counted
SkipExistingDirOnly(overwrite, out_path) == ~overwrite /\ out_path \in dirs

\* if not overwrite and Path(out_path).exists()
SkipExisting(overwrite, out_path) == ~overwrite /\ Exists(out_path)

\* if str(in_path) == str(out_path)
SkipSame(in_path, out_path) == in_path = out_path

\* one iteration of "for file in files"
D_Iterate ==
    /\ pc = "dispatch"
    /\ \E file \in (listing \cup Glob(args.src, args.recursive)) \ visited :
         LET out_path == MirrorPath(file, args.src, args.dst)
             existed == Exists(out_path)
             note(sub) == [inpath |-> file, outpath |-> out_path,
                           existed |-> existed, submitted |-> sub]
         IN  /\ visited' = visited \cup {file}
             /\ IF Lower(Suffix(file)) \notin AllowedExts(args.img_exts)
                THEN UNCHANGED <<tasks, examined>>
                ELSE IF SkipExisting(args.force, out_path)
                        \/ SkipSame(file, out_path)
                THEN /\ examined' = examined \cup {note(FALSE)}
                     /\ tasks' = tasks
                ELSE /\ examined' = examined \cup {note(TRUE)}
                     /\ tasks' = Append(tasks, NewTask(file, out_path, FALSE))
    /\ UNCHANGED <<args, fs, dirs, fs0, pc, listing, idx, pool, ret, exitcode,
                   interrupted, written>>

\* the generator is exhausted: on to "for task in tasks"
D_EndLoop ==
    /\ pc = "dispatch"
    /\ listing \subseteq visited
    /\ pc' = IF tasks = <<>> THEN "close" ELSE "get"
    /\ idx' = 1
    /\ UNCHANGED <<args, fs, dirs, fs0, listing, visited, tasks, pool, ret,
                   exitcode, interrupted, examined, written>>

\* the next iteration of "for task in tasks", or past the loop
Advance ==
    /\ idx' = idx + 1
    /\ pc' = IF idx + 1 > Len(tasks) THEN "close" ELSE "get"

\* task.get(10) finds the result: it returns it, or re-raises what the call
\* raised, which neither except clause of the loop catches
A_Get ==
    /\ pc = "get"
    /\ tasks[idx].result # "pending"
    /\ IF tasks[idx].result = "returned"
       THEN Advance /\ UNCHANGED <<tasks, pool, exitcode>>
       ELSE Exit(1, tasks) /\ UNCHANGED idx
    /\ UNCHANGED <<args, fs, dirs, fs0, listing, visited, ret, interrupted,
                   examined, written>>

\* task.get(10) raises multiprocessing.TimeoutError: the result was not there
\* when the wait ran out
A_Timeout ==
    /\ pc = "get"
    /\ tasks[idx].result = "pending"
    /\ pc' = "tle"
    /\ UNCHANGED <<args, fs, dirs, fs0, listing, visited, tasks, idx, pool,
                   ret, exitcode, interrupted, examined, written>>

\* print("TLE"); continue
A_Tle ==
    /\ pc = "tle"
    /\ Advance
    /\ UNCHANGED <<args, fs, dirs, fs0, listing, visited, tasks, pool, ret,
                   exitcode, interrupted, examined, written>>

\* pool.close()
A_Close ==
    /\ pc = "close"
    /\ pool' = "closed"
    /\ pc' = "join"
    /\ UNCHANGED <<args, fs, dirs, fs0, listing, visited, tasks, idx, ret,
                   exitcode, interrupted, examined, written>>

\* pool.join() returns once every worker process has exited, that is once
\* every submitted task has finished; the function returns None and cli ends
A_Join ==
    /\ pc = "join"
    /\ Unfinished = {}
    /\ pool' = "joined"
    /\ ret' = "None"
    /\ pc' = "exit"
    /\ exitcode' = 0
    /\ UNCHANGED <<args, fs, dirs, fs0, listing, visited, tasks, idx,
                   interrupted, examined, written>>

----------------------------------------------------------------------------
(* SIGINT.  The pool processes ignore it (setup); the main process gets a   *)
(* KeyboardInterrupt at the statement it is executing.                      *)

\* inside "try: task.get(10)": except KeyboardInterrupt terminates and joins
\* the pool and returns 1, which cli drops: the process ends with status 0
I_Get ==
    /\ pc = "get"
    /\ interrupted' = TRUE
    /\ tasks' = Terminated(tasks)
    /\ pool' = "terminated"
    /\ ret' = "1"
    /\ pc' = "exit"
    /\ exitcode' = 0
    /\ UNCHANGED <<args, fs, dirs, fs0, listing, visited, idx, examined, written>>

\* anywhere else in add_date_in_dir_mt no handler is in scope: the
\* KeyboardInterrupt leaves the function and cli, and the interpreter ends
\* with status 130
I_Uncaught ==
    /\ pc \in {"dispatch", "tle", "close", "join"}
    /\ interrupted' = TRUE
    /\ Exit(130, tasks)
    /\ UNCHANGED <<args, fs, dirs, fs0, listing, visited, idx, ret, examined,
                   written>>

\* inside the single-file call of add_date_to_img, in its try block
I_Single ==
    /\ pc = "single"
    /\ tasks[1].pc # "done"
    /\ interrupted' = TRUE
    /\ LET fin == Finish(tasks[1], "KeyboardInterrupt")
       IN  IF fin.result = "raised"
           THEN Exit(130, <<fin>>)
           ELSE tasks' = <<fin>> /\ UNCHANGED <<pc, exitcode, pool>>
    /\ UNCHANGED <<args, fs, dirs, fs0, listing, visited, idx, ret, examined,
                   written>>

----------------------------------------------------------------------------
(* The specifications *)

Next ==
    \/ C_ConfigError
    \/ C_SingleFile
    \/ C_SingleReturn
    \/ C_DirMode
    \/ D_Iterate
    \/ D_EndLoop
    \/ A_Get
    \/ A_Timeout
    \/ A_Tle
    \/ A_Close
    \/ A_Join
    \/ I_Get
    \/ I_Uncaught
    \/ I_Single
    \/ Begin
    \/ Mkdir
    \/ Save

Spec == Init /\ [][Next]_vars

\* the coordinator and the pool processes are scheduled by the operating
\* system: a step that stays possible is taken.  Nothing forces a SIGINT, and
\* nothing makes the open() of a FIFO return.
Fairness ==
    /\ WF_vars(C_ConfigError \/ C_SingleFile \/ C_SingleReturn \/ C_DirMode)
    /\ WF_vars(D_Iterate)
    /\ WF_vars(D_EndLoop)
    /\ WF_vars(A_Get \/ A_Timeout \/ A_Tle \/ A_Close \/ A_Join)
    /\ WF_vars(Begin)
    /\ WF_vars(Mkdir)
    /\ WF_vars(Save)

\* the runs whose progress is checked: the files directly under the source
\* root, the default options of picdate
FairInit ==
    InitWith({FileAaj, FileAbj},
             {[variant |-> "picdate", ratio |-> Ratio(2, 3), jobs |-> 2]},
             BOOLEAN, {FALSE})

FairSpec == FairInit /\ [][Next]_vars /\ Fairness

----------------------------------------------------------------------------
(* The geometry of one call: the inputs of the fine tune are drawn in the   *)
(* initial state, a single-file call of add_date_to_img applies it          *)

GeoDims == 1..MaxDim \cup {200, 298, 299, 300, 301, 302, 303, 304}

GeoRatios ==
    {RatioNone, Ratio(1, 1), Ratio(2, 3), Ratio(1, 2), Ratio(3, 4), Ratio(10, 11)}

GeoInit ==
    \E w \in GeoDims, h \in GeoDims, r \in GeoRatios, px \in {50, 94},
       meta \in {<<"date", 6>>, <<"none", 1>>} :
      /\ fs = [p \in {FileAaj, FileBbj} |->
                 IF p = FileAaj THEN Img(meta[1], meta[2], w, h)
                 ELSE Img("none", 1, 300, 200)]
      /\ dirs = {DirA, DirB}
      /\ fs0 = {FileAaj, FileBbj}
      /\ args = [MakeArgs(<<FileAaj, FileBbj>>,
                          [variant |-> "picdate", ratio |-> r, jobs |-> 1],
                          TRUE, FALSE, px, 94)
                   EXCEPT !.text_size = R(LongEdgeMm, 1)]
      /\ pc = "single"
      /\ listing = {}
      /\ visited = {}
      /\ tasks = <<NewTask(FileAaj, FileBbj, TRUE)>>
      /\ idx = 0
      /\ pool = "none"
      /\ ret = "unset"
      /\ exitcode = -1
      /\ interrupted = FALSE
      /\ examined = {}
      /\ written = {}

GeoNext ==
    \/ Begin
    \/ Mkdir
    \/ Save
    \/ C_SingleReturn

GeoSpec == GeoInit /\ [][GeoNext]_vars

----------------------------------------------------------------------------
(* The claims *)

\* the run went through add_date_in_dir_mt
DirRun == pool # "none"

\* C1: in a directory-mode run no two tasks submitted to the pool have the
\* same output path
C1_DistinctOutputPaths ==
    DirRun =>
      \A i \in TaskIds, j \in TaskIds :
         i # j => tasks[i].outpath # tasks[j].outpath

\* C2: every call of add_date_to_img, from the scheduler or from single-file
\* mode, has an output path different from its input path
C2_OutputDiffersFromInput ==
    \A t \in TaskIds : tasks[t].outpath # tasks[t].inpath

\* C3: in directory mode without overwrite a candidate whose destination
\* exists when it is examined is not submitted, the loop still goes through
\* every enumerated candidate, and no file that existed before the run is
\* opened for writing by a worker
C3_ExistingDestinationSkipped ==
    (DirRun /\ ~args.force) =>
      /\ \A e \in examined : e.existed => ~e.submitted
      /\ \A t \in TaskIds : tasks[t].outpath \notin fs0
      /\ written \cap fs0 = {}
      /\ pc \in {"get", "tle", "close", "join"} \/ ret # "unset"
            => listing \subseteq visited

C3_Witness ==
    /\ DirRun /\ ~args.force
    /\ \E e \in examined : e.existed /\ ~e.submitted /\ e.outpath \in fs0
    /\ ret = "None"
    /\ \E t \in TaskIds : ~tasks[t].failed /\ tasks[t].outpath \in written

\* C4: a failure of any step of a pool task stays inside add_date_to_img: the
\* task's result is a normal return, and a run without interrupt ends in
\* normal completion with every submitted task awaited and finished
C4_FailuresContained ==
    /\ \A t \in TaskIds :
         ~tasks[t].inproc =>
            /\ tasks[t].result # "raised"
            /\ tasks[t].failed => tasks[t].result = "returned"
    /\ (DirRun /\ pc = "exit" /\ ~interrupted) =>
         /\ ret = "None"
         /\ exitcode = 0
         /\ idx > Len(tasks)
         /\ \A t \in TaskIds : tasks[t].pc = "done"

C4_Witness ==
    /\ DirRun /\ pc = "exit" /\ ~interrupted /\ ret = "None"
    /\ \E t \in TaskIds, u \in TaskIds :
         /\ tasks[t].failed /\ tasks[t].exc = "OSError"
         /\ tasks[t].steps[Len(tasks[t].steps)] = "save"
         /\ ~tasks[u].failed /\ tasks[u].outpath \in written

\* C5: a directory-mode run with no interrupt always eventually reaches
\* Completed, also when a timed-out task never finishes
C5_EventuallyCompleted ==
    (pc = "dispatch") ~> (interrupted \/ ret = "None")

\* C6: whenever the coordinator observes an interrupt during a directory-mode
\* run it terminates the pool, no task continues, and the run ends with the
\* cancellation outcome (return value 1); a run that ended is Completed or
\* Cancelled
C6_InterruptCancels ==
    /\ (DirRun /\ interrupted) =>
          /\ ret = "1"
          /\ pool = "terminated"
          /\ Running = {}
    /\ (DirRun /\ pc = "exit") => ret \in {"None", "1"}

\* the single-file configuration error, on the file system before the run
ConfigErrorCase ==
    /\ args.src \in fs0
    /\ args.dst \notin fs0 \/ ~args.force

\* C7: cli exits with 1 exactly in the single-file configuration error case,
\* where no worker is invoked and nothing is written; every other run exits
\* with 0
C7_ExitCodes ==
    pc = "exit" =>
      /\ exitcode = 1 <=> ConfigErrorCase
      /\ ConfigErrorCase => tasks = <<>> /\ written = {}
      /\ ~ConfigErrorCase => exitcode = 0

InvalidRatio(r) ==
    \/ r.kind = "garbage"
    \/ r.kind = "ratio" /\ r.m > r.n

\* C8: an invalid fine-tune aspect ratio is rejected before any task starts:
\* no task is submitted, no worker is invoked, the exit status is not 0
C8_InvalidRatioRejected ==
    InvalidRatio(args.fine_tune_aspect_ratio) =>
      /\ tasks = <<>>
      /\ pc = "exit" => exitcode # 0

Abs(x) == IF x < 0 THEN -x ELSE x
RNonZero(x) == x[1] # 0
RPositive(x) == x[1] * x[2] > 0

\* the fine tune of task t was computed without raising
GeometryDone(t) ==
    /\ \E i \in 1..Len(tasks[t].steps) : tasks[t].steps[i] = "geometry"
    /\ \/ tasks[t].exc = "none"
       \/ tasks[t].steps[Len(tasks[t].steps)] # "geometry"

\* draw.text of task t was called
Drawn(t) ==
    /\ \E i \in 1..Len(tasks[t].steps) : tasks[t].steps[i] = "render"
    /\ \/ tasks[t].exc = "none"
       \/ tasks[t].steps[Len(tasks[t].steps)] # "render"

\* C9: for width, height > 0 and a ratio M/N with 0 < M <= N (or "none"): at
\* most one offset is non-zero; both are zero for "none" and within 0.01 of
\* the orientation-matched target; beyond it the offset is positive and half
\* the excess over the target-ratio dimension; the text is drawn at
\* ((width - offset_w) * pos_x, (height - offset_h) * pos_y)
C9_CropOffsets ==
    \A t \in TaskIds :
      LET g == tasks[t].geo
          w == g.width
          h == g.height
          r == args.fine_tune_aspect_ratio
          ow == g.offset_w
          oh == g.offset_h
          \* the target w/h is a / b
          a == IF w > h THEN r.n ELSE r.m
          b == IF w > h THEN r.m ELSE r.n
      IN  /\ (GeometryDone(t) /\ r.kind = "none") =>
                ~RNonZero(ow) /\ ~RNonZero(oh)
          /\ (GeometryDone(t) /\ r.kind = "ratio" /\ 0 < r.m /\ r.m <= r.n) =>
                /\ ~RNonZero(ow) \/ ~RNonZero(oh)
                /\ Abs(100 * w * b - 100 * a * h) <= b * h =>
                      ~RNonZero(ow) /\ ~RNonZero(oh)
                /\ RNonZero(ow) => RPositive(ow)
                /\ RNonZero(oh) => RPositive(oh)
                /\ 100 * w * b > 100 * a * h + b * h =>
                      /\ RNonZero(ow)
                      /\ 2 * b * ow[1] = (w * b - h * a) * ow[2]
                /\ 100 * w * b < 100 * a * h - b * h =>
                      /\ RNonZero(oh)
                      /\ 2 * a * oh[1] = (h * a - w * b) * oh[2]
          /\ (Drawn(t) /\ tasks[t].geo.size > 0 /\ args.variant = "picdate") =>
                /\ g.draw_x[1] * ow[2] * args.pos_x[2]
                     = (w * ow[2] - ow[1]) * args.pos_x[1] * g.draw_x[2]
                /\ g.draw_y[1] * oh[2] * args.pos_y[2]
                     = (h * oh[2] - oh[1]) * args.pos_y[1] * g.draw_y[2]

\* scenario D: 2/3 on a landscape image wider than 3/2 by more than 0.01
C9_Witness ==
    \E t \in TaskIds :
      /\ tasks[t].pc = "done" /\ ~tasks[t].failed /\ Drawn(t)
      /\ args.fine_tune_aspect_ratio = Ratio(2, 3)
      /\ tasks[t].geo.width = 304 /\ tasks[t].geo.height = 200
      /\ RPositive(tasks[t].geo.offset_w)
      /\ RPositive(tasks[t].geo.draw_x)

\* position of step s in the log of task t, 0 when it was not taken
StepAt(t, s) ==
    LET I == {i \in 1..Len(tasks[t].steps) : tasks[t].steps[i] = s}
    IN  IF I = {} THEN 0 ELSE CHOOSE i \in I : TRUE

PipelineOrder ==
    <<"decode", "metadata", "date", "orient", "measure", "geometry", "render",
      "mkdir", "save">>

\* C10: for every image that carries metadata, with or without the capture
\* time field, the orientation correction is applied before the dimensions
\* are measured, and the steps run in the order decode, metadata, date,
\* orientation, measure and geometry, render, mkdir, save
C10_OrientBeforeMeasure ==
    \A t \in TaskIds :
      /\ (tasks[t].exif # "none" /\ StepAt(t, "measure") > 0) =>
            /\ StepAt(t, "orient") > 0
            /\ StepAt(t, "orient") < StepAt(t, "measure")
      /\ \A i \in 1..Len(PipelineOrder), j \in 1..Len(PipelineOrder) :
            (i < j /\ StepAt(t, PipelineOrder[i]) > 0
                   /\ StepAt(t, PipelineOrder[j]) > 0)
              => StepAt(t, PipelineOrder[i]) < StepAt(t, PipelineOrder[j])

====
